---- MODULE Spec2Model ----
(***************************************************************************)
(* A model of the two hex-map programs of the repository:                  *)
(*   src/app.py            "Hex Grid Explorer"  (called app below)         *)
(*   src/streamlit_app.py  "Hex Map India"      (called streamlit below)   *)
(* Both build a hexagonal grid, merge an optional hex_id->code mapping     *)
(* table and an optional value table onto it, and draw the merged rows.    *)
(*                                                                         *)
(* Text is a sequence of one-character strings.  A CSV cell is a record    *)
(* [k, n, s]: an integer, a non-numeric text, or an empty cell (NaN).      *)
(* An optional value is the empty sequence (absent / NaN) or <<v>>.        *)
(***************************************************************************)
EXTENDS Integers, Sequences, FiniteSets, TLC

VARIABLES
    app,            \* which program runs: "app", "streamlit", or "none"
    pc,             \* the position of the running script
    rows,           \* make_hex_grid argument
    cols,           \* make_hex_grid argument
    orientation,    \* make_hex_grid argument
    row,            \* make_hex_grid outer loop variable
    col,            \* make_hex_grid inner loop variable
    hexes,          \* make_hex_grid accumulator
    code_in,        \* a code text as read from a file
    code_out,       \* the cleaned code (optional)
    code_again,     \* the cleaned code, cleaned once more (optional)
    mapping_file,   \* the mapping CSV (optional table)
    values_file,    \* the value CSV (optional table)
    cmap_name,      \* the colormap name handed to the plot helper
    show_mode,      \* app: the sidebar radio "Show"
    hex_grid,       \* the grid DataFrame
    mapping_df,     \* app: mapping_df, streamlit: local_mapping (optional frame)
    merged,         \* the merged DataFrame (optional frame)
    preview,        \* streamlit: the figure drawn before the upload is read
    fig,            \* the figure of the run
    export,         \* the CSV download of the run (optional frame)
    outcome         \* how the script ended: running, done, stopped, or an exception

vars == << app, pc, rows, cols, orientation, row, col, hexes, code_in, code_out,
           code_again, mapping_file, values_file, cmap_name, show_mode, hex_grid,
           mapping_df, merged, preview, fig, export, outcome >>

gridVars == << rows, cols, orientation, row, col, hexes >>
codeVars == << code_in, code_out, code_again >>
runVars  == << mapping_file, values_file, cmap_name, show_mode, hex_grid,
               mapping_df, merged, preview, fig, export, outcome >>

----------------------------------------------------------------------------
(* Bounds of the model. *)

MaxGridRows == 3
MaxGridCols == 3
MaxStrLen == 4

----------------------------------------------------------------------------
(* Optional values. *)

None == << >>
Some(v) == << v >>
IsSome(o) == o /= << >>
Get(o) == o[1]

----------------------------------------------------------------------------
(* Text and code cleaning. *)

UpperLetters == {"A", "B", "C", "D", "K", "N", "X"}
LowerLetters == {"a", "b", "c", "d", "k", "n", "x"}

\* the regular expression class [A-Za-z]
IsLetter(c) == c \in UpperLetters \cup LowerLetters

\* str.upper on one character
UpperChar(c) ==
    CASE c = "a" -> "A" [] c = "b" -> "B" [] c = "c" -> "C" [] c = "d" -> "D"
      [] c = "k" -> "K" [] c = "n" -> "N" [] c = "x" -> "X" [] OTHER -> c

\* .str.replace("[^A-Za-z]", "", regex=True)
StripNonLetters(s) == SelectSeq(s, IsLetter)

\* .str.upper()
UpperAll(s) == [i \in 1..Len(s) |-> UpperChar(s[i])]

\* .str[-2:]
LastTwo(s) == IF Len(s) <= 2 THEN s ELSE SubSeq(s, Len(s) - 1, Len(s))

\* a plausible slip: the slice is taken before the characters are removed
CleanSliceFirst(s) == UpperAll(StripNonLetters(LastTwo(s)))

\* the code cleaning chain of both programs
CleanCode(s) == LastTwo(UpperAll(StripNonLetters(s)))

----------------------------------------------------------------------------
(* The grid generator. *)

Orientations == {"flat", "pointy"}

\* the first vertex angle of hex_vertices
StartDeg(o) == IF o = "pointy" THEN 30 ELSE 0

\* hex_vertices: six vertices at radius r around the centre, given by their
\* angle in degrees
HexVertices(o) == [i \in 1..6 |-> StartDeg(o) + 60 * (i - 1)]

\* a plausible slip: the row stride is the number of rows
HexIdRowsStride(r, c, nrows, ncols) == r * nrows + c

\* "hex_id": row * cols + col
HexId(r, c, nrows, ncols) == r * ncols + c

\* The centre of a cell.  cx is counted in units of h_spacing / 2 and cy in
\* units of v_spacing / 2 ("pointy": h_spacing = sqrt(3) r, v_spacing = 1.5 r;
\* "flat": h_spacing = 1.5 r, v_spacing = sqrt(3) r).
CenterX(o, r, c) == IF o = "pointy" THEN 2 * c + (r % 2) ELSE 2 * c
CenterY(o, r, c) == IF o = "pointy" THEN 2 * r ELSE 2 * r + (c % 2)

\* one dictionary appended to hexes
HexRecord(o, r, c, nrows, ncols) ==
    [ hex_id |-> HexId(r, c, nrows, ncols),
      row    |-> r,
      col    |-> c,
      cx     |-> CenterX(o, r, c),
      cy     |-> CenterY(o, r, c),
      verts  |-> HexVertices(o) ]

\* make_hex_grid as a function of its arguments: the rows of the DataFrame
MakeHexGrid(nrows, ncols, o) ==
    [i \in 1..(nrows * ncols) |->
        HexRecord(o, (i - 1) \div ncols, (i - 1) % ncols, nrows, ncols)]

----------------------------------------------------------------------------
(* Idle values of the variables a specification does not use. *)

NoFig == [kind |-> "none", polys |-> << >>, legend |-> None]

GridIdle == /\ rows = 0 /\ cols = 0 /\ orientation = "flat"
            /\ row = 0 /\ col = 0 /\ hexes = << >>

CodeIdle == /\ code_in = << >> /\ code_out = None /\ code_again = None

RunIdle == /\ mapping_file = None /\ values_file = None /\ cmap_name = "viridis"
           /\ show_mode = "none" /\ hex_grid = << >> /\ mapping_df = None
           /\ merged = None /\ preview = NoFig /\ fig = NoFig /\ export = None
           /\ outcome = "running"

----------------------------------------------------------------------------
(* Specification SpecGrid: make_hex_grid, one loop iteration per step. *)

GridInit ==
    /\ app = "none" /\ pc = "grid_loop"
    /\ rows \in 1..MaxGridRows
    /\ cols \in 1..MaxGridCols
    /\ orientation \in Orientations
    /\ row = 0 /\ col = 0 /\ hexes = << >>
    /\ CodeIdle /\ RunIdle

\* the body of the inner loop, and the advance of both loops
GridAppend ==
    /\ pc = "grid_loop"
    /\ row < rows
    /\ hexes' = Append(hexes, HexRecord(orientation, row, col, rows, cols))
    /\ IF col + 1 < cols
         THEN /\ col' = col + 1 /\ row' = row
         ELSE /\ col' = 0 /\ row' = row + 1
    /\ UNCHANGED << app, pc, rows, cols, orientation >>
    /\ UNCHANGED codeVars /\ UNCHANGED runVars

\* return pd.DataFrame(hexes)
GridReturn ==
    /\ pc = "grid_loop"
    /\ row >= rows
    /\ pc' = "grid_done"
    /\ hex_grid' = hexes
    /\ UNCHANGED << app, rows, cols, orientation, row, col, hexes >>
    /\ UNCHANGED codeVars
    /\ UNCHANGED << mapping_file, values_file, cmap_name, show_mode,
                    mapping_df, merged, preview, fig, export, outcome >>

GridNext == GridAppend \/ GridReturn

SpecGrid == GridInit /\ [][GridNext]_vars

----------------------------------------------------------------------------
(* Specification SpecCode: the code cleaning applied to a text, and again  *)
(* to its own result.                                                      *)

CodeChars == {"k", "a", "K", "A", "x", ".", "!"}

CodeTexts == UNION {[1..n -> CodeChars] : n \in 0..MaxStrLen}

CodeInit ==
    /\ app = "none" /\ pc = "code_read"
    /\ code_in \in CodeTexts
    /\ code_out = None /\ code_again = None
    /\ GridIdle /\ RunIdle

\* the cleaning of a code read from a file
CodeClean ==
    /\ pc = "code_read"
    /\ code_out' = Some(CleanCode(code_in))
    /\ pc' = "code_cleaned"
    /\ UNCHANGED << app, code_in, code_again >>
    /\ UNCHANGED gridVars /\ UNCHANGED runVars

\* the cleaning of an already cleaned code (a cleaned mapping read back)
CodeCleanAgain ==
    /\ pc = "code_cleaned"
    /\ code_again' = Some(CleanCode(Get(code_out)))
    /\ pc' = "code_recleaned"
    /\ UNCHANGED << app, code_in, code_out >>
    /\ UNCHANGED gridVars /\ UNCHANGED runVars

CodeNext == CodeClean \/ CodeCleanAgain

SpecCode == CodeInit /\ [][CodeNext]_vars

----------------------------------------------------------------------------
(* Tables and DataFrames.                                                  *)
(*                                                                         *)
(* A CSV table is [hdr, rows]: hdr the sequence of its column names (lower *)
(* case) and rows a sequence of functions from column name to cell.  A     *)
(* mapping table has the columns hex_id and code.  Code cells of a value   *)
(* table hold text.                                                        *)
(*                                                                         *)
(* A DataFrame of the run is [cols, rows]; every row is a record           *)
(*   hex_id : the integer id,                                              *)
(*   cell   : the grid columns row, col, cx, cy, verts (optional: NaN      *)
(*            after a left join that found no grid cell),                  *)
(*   code   : the code (optional),                                         *)
(*   value  : the cell of the value column (NaN when missing).             *)
(***************************************************************************)

Num(n) == [k |-> "int", n |-> n, s |-> << >>]
Str(s) == [k |-> "str", n |-> 0, s |-> s]
NaN    == [k |-> "nan", n |-> 0, s |-> << >>]

Range(f) == {f[i] : i \in DOMAIN f}

Column(trows, name) == [i \in 1..Len(trows) |-> trows[i][name]]

\* the dtype pd.read_csv gives a column of integers, texts and empty cells
ColDtype(cells) ==
    IF \E i \in 1..Len(cells) : cells[i].k = "str" THEN "object"
    ELSE IF \E i \in 1..Len(cells) : cells[i].k = "nan" THEN "float64"
    ELSE "int64"

\* pd.to_numeric(..., errors="coerce") on one cell: the number, or NaN
ToNumeric(cell) == IF cell.k = "int" THEN Some(cell.n) ELSE None

\* .astype(str) on one cell; the text of a number holds digits only
AsStr(cell) ==
    CASE cell.k = "str" -> cell.s
      [] cell.k = "nan" -> <<"n", "a", "n">>
      [] OTHER -> <<"0">>

RECURSIVE Flatten(_)
Flatten(ss) == IF Len(ss) = 0 THEN << >> ELSE Head(ss) \o Flatten(Tail(ss))

\* DataFrame.merge(how="left"): the left rows in order, each with every
\* matching right row in order, or once with the right columns missing
LeftJoin(L, R, Match(_, _), Combine(_, _), Fill(_)) ==
    Flatten([i \in 1..Len(L) |->
        LET ms == SelectSeq(R, LAMBDA r : Match(L[i], r))
        IN  IF Len(ms) = 0 THEN << Fill(L[i]) >>
            ELSE [j \in 1..Len(ms) |-> Combine(L[i], ms[j])]])

\* DataFrame.merge(how="inner"): as above without the unmatched left rows
InnerJoin(L, R, Match(_, _), Combine(_, _)) ==
    Flatten([i \in 1..Len(L) |->
        LET ms == SelectSeq(R, LAMBDA r : Match(L[i], r))
        IN  [j \in 1..Len(ms) |-> Combine(L[i], ms[j])]])

GridColumns == {"hex_id", "row", "col", "cx", "cy", "verts"}

Frame(cs, rs) == [cols |-> cs, rows |-> rs]

\* the result of a step that may raise
Ok(v) == [ok |-> TRUE, v |-> v]
Raised == [ok |-> FALSE, v |-> None]

----------------------------------------------------------------------------
(* Colours, figures. *)

KnownCmaps == {"viridis", "plasma"}         \* plt.colormaps()
DefaultCmap == "viridis"                    \* rcParams["image.cmap"]

Colour(kind, name, num, den) == [kind |-> kind, name |-> name, num |-> num, den |-> den]
Grey90 == Colour("grey90", "", 0, 1)        \* (0.9, 0.9, 0.9, 1)
Grey92 == Colour("grey92", "", 0, 1)        \* (0.92, 0.92, 0.92, 1)
White  == Colour("white", "", 0, 1)         \* (1, 1, 1, 1)
\* the colormap's colour for a NaN input: its "bad" colour, transparent black
BadColour(name) == Colour("bad", name, 0, 1)

SetMin(S) == CHOOSE x \in S : \A y \in S : x <= y
SetMax(S) == CHOOSE x \in S : \A y \in S : x >= y

\* the numbers of a column of optional numbers
Numbers(vals) == {Get(vals[i]) : i \in {j \in 1..Len(vals) : IsSome(vals[j])}}

\* cmap(Normalize(vmin, vmax)(v)): the place of v on the scale as the fraction
\* num / den; Normalize gives 0 when vmin = vmax
ScaleColour(name, v, vmin, vmax) ==
    IF vmin = vmax THEN Colour("cmap", name, 0, 1)
    ELSE Colour("cmap", name, v - vmin, vmax - vmin)

\* the text drawn on a hexagon: the code, else str(int(hex_id))
Label(r) == IF IsSome(r.code) THEN Str(Get(r.code)) ELSE Num(r.hex_id)

Poly(r, colour) ==
    [hex_id |-> r.hex_id, verts |-> Get(r.cell).verts, colour |-> colour, label |-> Label(r)]

Legend(name, vmin, vmax) == [cmap |-> name, vmin |-> vmin, vmax |-> vmax]

Figure(polys, legend) == [kind |-> "figure", polys |-> polys, legend |-> legend]

\* the placeholder "No matched hexes to plot"
NoMatchFig == [kind |-> "nomatch", polys |-> << >>, legend |-> None]

----------------------------------------------------------------------------
(* src/app.py, the script from the grid to the downloads. *)

\* lines 124-156: the mapping file read, its codes cleaned
AppReadMappingDf(file) ==
    IF file = None THEN None
    ELSE Some(Frame({"hex_id", "code"},
              [i \in 1..Len(Get(file).rows) |->
                  [hex_id |-> Get(file).rows[i]["hex_id"],
                   code   |-> CleanCode(AsStr(Get(file).rows[i]["code"]))]]))

GridRow(c) == [hex_id |-> c.hex_id, cell |-> Some(c), code |-> None, value |-> NaN]

\* lines 159-163: hex_grid.merge(mapping_df, on="hex_id", how="left"), which
\* raises when the mapping ids were read as text; without a mapping the code
\* column is all NA
AppMergeMapping(grid, mdf) ==
    IF mdf = None
      THEN Ok(Frame(GridColumns \cup {"code"}, [i \in 1..Len(grid) |-> GridRow(grid[i])]))
    ELSE IF ColDtype(Column(Get(mdf).rows, "hex_id")) = "object"
      THEN Raised
    ELSE Ok(Frame(GridColumns \cup {"code"},
            LeftJoin(grid, Get(mdf).rows,
                     LAMBDA c, m : m.hex_id.k = "int" /\ m.hex_id.n = c.hex_id,
                     LAMBDA c, m : [GridRow(c) EXCEPT !.code = Some(m.code)],
                     LAMBDA c : GridRow(c))))

\* lines 176-181: the name of the value column
ValueColName(hdr) ==
    IF "value" \in Range(hdr) THEN Some("value")
    ELSE IF Len(hdr) >= 2 THEN Some(hdr[2])
    ELSE None

\* a plausible slip: the key cell is cleaned like a mapping code before it is
\* compared
CodeMatchesCleaned(r, cell) == IsSome(r.code) /\ Get(r.code) = CleanCode(AsStr(cell))

\* a merged row's code against a value table's key cell
CodeMatches(r, cell) == IsSome(r.code) /\ cell.k = "str" /\ Get(r.code) = cell.s

\* a plausible slip: how="inner"
MergeValuesOnCodeInner(m, trows, keycol, valcol) ==
    Frame(m.cols \cup {"value"},
          InnerJoin(m.rows, trows,
                    LAMBDA r, t : IsSome(r.code) /\ t[keycol] = Str(Get(r.code)),
                    LAMBDA r, t : [r EXCEPT !.value = t[valcol]]))

\* merged.merge(<key, value>, on="code", how="left")
MergeValuesOnCode(m, trows, keycol, valcol) ==
    Frame(m.cols \cup {"value"},
          LeftJoin(m.rows, trows,
                   LAMBDA r, t : CodeMatches(r, t[keycol]),
                   LAMBDA r, t : [r EXCEPT !.value = t[valcol]],
                   LAMBDA r : r))

\* merged.merge(<hex_id, value>, on="hex_id", how="left")
MergeValuesOnHexId(m, trows, valcol) ==
    Frame(m.cols \cup {"value"},
          LeftJoin(m.rows, trows,
                   LAMBDA r, t : t["hex_id"].k = "int" /\ t["hex_id"].n = r.hex_id,
                   LAMBDA r, t : [r EXCEPT !.value = t[valcol]],
                   LAMBDA r : r))

\* a plausible slip: no positional fallback for a table without code or hex_id
AppMergeValuesNoFallback(m, file) ==
    IF file = None THEN m
    ELSE LET hdr   == Get(file).hdr
             trows == Get(file).rows
             vcol  == ValueColName(hdr)
         IN  IF "code" \in Range(hdr)
               THEN IF vcol = None THEN m
                    ELSE MergeValuesOnCode(m, trows, "code", Get(vcol))
             ELSE IF "hex_id" \in Range(hdr)
               THEN IF vcol = None THEN m
                    ELSE IF ColDtype(Column(trows, "hex_id")) = "object"
                      THEN m
                    ELSE MergeValuesOnHexId(m, trows, Get(vcol))
             ELSE m

\* lines 170-198: the value file merged onto merged; an exception inside the
\* try block leaves merged as it was
AppMergeValues(m, file) ==
    IF file = None THEN m
    ELSE LET hdr   == Get(file).hdr
             trows == Get(file).rows
             vcol  == ValueColName(hdr)
         IN  IF "code" \in Range(hdr)
               THEN IF vcol = None THEN m                          \* KeyError
                    ELSE MergeValuesOnCode(m, trows, "code", Get(vcol))
             ELSE IF "hex_id" \in Range(hdr)
               THEN IF vcol = None THEN m                          \* KeyError
                    ELSE IF ColDtype(Column(trows, "hex_id")) = "object"
                      THEN m                                       \* ValueError
                    ELSE MergeValuesOnHexId(m, trows, Get(vcol))
             ELSE IF Len(hdr) >= 2
               THEN MergeValuesOnCode(m, trows, hdr[1], hdr[2])
             ELSE m

\* lines 65-74: the face colours of a choropleth
AppFaceColours(rs, vals, name) ==
    [i \in 1..Len(rs) |->
        IF IsSome(vals[i])
          THEN ScaleColour(name, Get(vals[i]), SetMin(Numbers(vals)), SetMax(Numbers(vals)))
          ELSE BadColour(name)]

\* a plausible slip: the colorbar is drawn without the test of
\* vals.isnull().all()
PlotHexDataframeColorbarAlways(rs, useValue, name) ==
    IF ~useValue
      THEN Ok(Figure([i \in 1..Len(rs) |-> Poly(rs[i], Grey90)], None))
    ELSE IF \E i \in 1..Len(rs) : rs[i].value.k = "str"
      THEN Raised
    ELSE IF name \notin KnownCmaps
      THEN Raised
    ELSE LET vals == [i \in 1..Len(rs) |-> ToNumeric(rs[i].value)]
             cs   == AppFaceColours(rs, vals, name)
         IN  Ok(Figure([i \in 1..Len(rs) |-> Poly(rs[i], cs[i])],
                       IF Numbers(vals) = {} THEN Some(Legend(name, 0, 0))
                       ELSE Some(Legend(name, SetMin(Numbers(vals)), SetMax(Numbers(vals))))))

\* plot_hex_dataframe: the figure, or the exception of astype(float) or of
\* cm.get_cmap
PlotHexDataframe(rs, useValue, name) ==
    IF ~useValue
      THEN Ok(Figure([i \in 1..Len(rs) |-> Poly(rs[i], Grey90)], None))
    ELSE IF \E i \in 1..Len(rs) : rs[i].value.k = "str"
      THEN Raised
    ELSE IF name \notin KnownCmaps
      THEN Raised
    ELSE LET vals == [i \in 1..Len(rs) |-> ToNumeric(rs[i].value)]
             cs   == AppFaceColours(rs, vals, name)
         IN  Ok(Figure([i \in 1..Len(rs) |-> Poly(rs[i], cs[i])],
                       IF Numbers(vals) = {} THEN None
                       ELSE Some(Legend(name, SetMin(Numbers(vals)), SetMax(Numbers(vals))))))

ShowModes == {"full", "coded", "choropleth"}

\* a plausible slip: "Only hexes with code" draws merged, not the selection
AppShowCodedAll(m, mode, name) ==
    CASE mode = "full" -> PlotHexDataframe(m.rows, FALSE, name)
      [] mode = "coded" ->
            LET sel == SelectSeq(m.rows, LAMBDA r : IsSome(r.code))
            IN  IF Len(sel) = 0 THEN Ok(NoFig) ELSE PlotHexDataframe(m.rows, FALSE, name)
      [] OTHER -> PlotHexDataframe(m.rows, "value" \in m.cols, name)

\* lines 208-232: what is drawn in a display mode; no figure is made when no
\* hexagon has a code in the mode "Only hexes with code"
AppShow(m, mode, name) ==
    CASE mode = "full" -> PlotHexDataframe(m.rows, FALSE, name)
      [] mode = "coded" ->
            LET sel == SelectSeq(m.rows, LAMBDA r : IsSome(r.code))
            IN  IF Len(sel) = 0 THEN Ok(NoFig) ELSE PlotHexDataframe(sel, FALSE, name)
      [] OTHER -> PlotHexDataframe(m.rows, "value" \in m.cols, name)

\* lines 121-163
AppReadMapping ==
    /\ app = "app" /\ pc = "start"
    /\ LET grid == MakeHexGrid(rows, cols, orientation)
           mdf  == AppReadMappingDf(mapping_file)
           res  == AppMergeMapping(grid, mdf)
       IN  /\ hex_grid' = grid
           /\ mapping_df' = mdf
           /\ IF res.ok
                THEN /\ merged' = Some(res.v) /\ pc' = "mapped" /\ outcome' = outcome
                ELSE /\ merged' = None /\ pc' = "crashed" /\ outcome' = "exception"
    /\ UNCHANGED << app, mapping_file, values_file, cmap_name, show_mode,
                    preview, fig, export >>
    /\ UNCHANGED gridVars /\ UNCHANGED codeVars

\* lines 168-198
AppReadValues ==
    /\ app = "app" /\ pc = "mapped"
    /\ merged' = Some(AppMergeValues(Get(merged), values_file))
    /\ pc' = "resolved"
    /\ UNCHANGED << app, mapping_file, values_file, cmap_name, show_mode, hex_grid,
                    mapping_df, preview, fig, export, outcome >>
    /\ UNCHANGED gridVars /\ UNCHANGED codeVars

\* lines 203-232
AppPlot ==
    /\ app = "app" /\ pc = "resolved"
    /\ \E mode \in ShowModes :
          LET res == AppShow(Get(merged), mode, cmap_name)
          IN  /\ show_mode' = mode
              /\ IF res.ok
                   THEN /\ fig' = res.v /\ pc' = "plotted" /\ outcome' = outcome
                   ELSE /\ fig' = fig /\ pc' = "crashed" /\ outcome' = "exception"
    /\ UNCHANGED << app, mapping_file, values_file, cmap_name, hex_grid,
                    mapping_df, merged, preview, export >>
    /\ UNCHANGED gridVars /\ UNCHANGED codeVars

\* lines 237-251: the merged rows without verts, offered as CSV
AppExport ==
    /\ app = "app" /\ pc = "plotted"
    /\ export' = Some(Frame(Get(merged).cols \ {"verts"}, Get(merged).rows))
    /\ pc' = "done"
    /\ outcome' = "done"
    /\ UNCHANGED << app, mapping_file, values_file, cmap_name, show_mode, hex_grid,
                    mapping_df, merged, preview, fig >>
    /\ UNCHANGED gridVars /\ UNCHANGED codeVars

----------------------------------------------------------------------------
(* src/streamlit_app.py, the script from the grid to the downloads. *)

\* load_local_mapping: ids coerced and rows without an id dropped, codes cleaned
LoadLocalMapping(file) ==
    IF file = None THEN None
    ELSE LET kept == SelectSeq(Get(file).rows, LAMBDA t : IsSome(ToNumeric(t["hex_id"])))
         IN  Some(Frame({"hex_id", "code"},
                  [i \in 1..Len(kept) |->
                      [hex_id |-> Num(Get(ToNumeric(kept[i]["hex_id"]))),
                       code   |-> CleanCode(AsStr(kept[i]["code"]))]]))

\* the code a row of the upload brings along
UploadCode(hdr, t) ==
    IF "code" \in Range(hdr) /\ t["code"].k = "str" THEN Some(t["code"].s) ELSE None

\* the value cell a row of the upload brings along
UploadValue(hdr, t) == IF "value" \in Range(hdr) THEN t["value"] ELSE NaN

\* line 267: local_mapping.merge(hex_grid, on="hex_id", how="inner")
PreviewMerged(lm, grid) ==
    Frame(GridColumns \cup {"code"},
          InnerJoin(lm.rows, grid,
                    LAMBDA m, c : m.hex_id.n = c.hex_id,
                    LAMBDA m, c : [GridRow(c) EXCEPT !.code = Some(m.code)]))

\* lines 299-300: local_mapping.merge(user_df, on="code", how="inner"), then
\* .merge(hex_grid, on="hex_id", how="left")
MergeOnCode(lm, hdr, trows, grid) ==
    Frame({"hex_id", "code"} \cup Range(hdr) \cup GridColumns,
          LeftJoin(InnerJoin(lm.rows, trows,
                             LAMBDA m, t : t["code"].k = "str" /\ t["code"].s = m.code,
                             LAMBDA m, t : [hex_id |-> m.hex_id.n, cell |-> None,
                                            code |-> Some(m.code),
                                            value |-> UploadValue(hdr, t)]),
                   grid,
                   LAMBDA r, c : r.hex_id = c.hex_id,
                   LAMBDA r, c : [r EXCEPT !.cell = Some(c)],
                   LAMBDA r : r))

\* a plausible slip: how="left"
MergeOnHexIdLeft(hdr, trows, grid) ==
    Frame(GridColumns \cup Range(hdr),
          LeftJoin(grid, trows,
                   LAMBDA c, t : ToNumeric(t["hex_id"]) = Some(c.hex_id),
                   LAMBDA c, t : [GridRow(c) EXCEPT !.code = UploadCode(hdr, t),
                                                    !.value = UploadValue(hdr, t)],
                   LAMBDA c : GridRow(c)))

\* lines 311-312: the ids coerced, hex_grid.merge(user_df, on="hex_id", how="inner")
MergeOnHexId(hdr, trows, grid) ==
    Frame(GridColumns \cup Range(hdr),
          InnerJoin(grid, trows,
                    LAMBDA c, t : ToNumeric(t["hex_id"]) = Some(c.hex_id),
                    LAMBDA c, t : [GridRow(c) EXCEPT !.code = UploadCode(hdr, t),
                                                     !.value = UploadValue(hdr, t)]))

\* lines 137-147: the face colours; a row is painted from the colormap only
\* when there is a value column and a colormap object
MatchedFaceColours(rs, vals, hasVal, name) ==
    [i \in 1..Len(rs) |->
        IF hasVal /\ name \in KnownCmaps
          THEN IF rs[i].value.k = "nan" THEN White
               ELSE ScaleColour(name, Get(vals[i]), SetMin(Numbers(vals)), SetMax(Numbers(vals)))
          ELSE Grey92]

\* plot_matched_hexes: the figure, or the exception of Polygon on missing
\* vertices or of float on a text
PlotMatchedHexes(m, value_col, name) ==
    IF m = None \/ Len(Get(m).rows) = 0 THEN Ok(NoMatchFig)
    ELSE LET rs     == Get(m).rows
             hasVal == IsSome(value_col) /\ Get(value_col) \in Get(m).cols
             vals   == [i \in 1..Len(rs) |-> ToNumeric(rs[i].value)]
         IN  IF \E i \in 1..Len(rs) : rs[i].cell = None
               THEN Raised
             ELSE IF hasVal /\ name \in KnownCmaps /\ \E i \in 1..Len(rs) : rs[i].value.k = "str"
               THEN Raised
             ELSE LET cs == MatchedFaceColours(rs, vals, hasVal, name)
                  IN  Ok(Figure([i \in 1..Len(rs) |-> Poly(rs[i], cs[i])],
                                IF hasVal /\ Numbers(vals) /= {}
                                  THEN Some(Legend(IF name \in KnownCmaps THEN name ELSE DefaultCmap,
                                                   SetMin(Numbers(vals)), SetMax(Numbers(vals))))
                                  ELSE None))

\* The outcome of lines 276-321 as [merged, fig, end]: end is "ok", "stop"
\* (st.stop) or "exception".
UploadResult(m, f, e) == [merged |-> m, fig |-> f, end |-> e]

\* lines 298-307: codes present and a local mapping; with a hex_id column in
\* the upload the first merge leaves hex_id_x and hex_id_y, and the second
\* merge raises KeyError
UploadByCode(lm, hdr, trows, grid, name) ==
    IF "hex_id" \in Range(hdr) THEN UploadResult(None, NoFig, "exception")
    ELSE LET m == MergeOnCode(lm, hdr, trows, grid)
         IN  IF Len(m.rows) = 0 THEN UploadResult(Some(m), NoFig, "ok")
             ELSE LET p == PlotMatchedHexes(Some(m), Some("value"), name)
                  IN  IF p.ok THEN UploadResult(Some(m), p.v, "ok")
                      ELSE UploadResult(Some(m), NoFig, "exception")

\* lines 310-318: the upload has a hex_id column
UploadByHexId(hdr, trows, grid, name) ==
    LET m == MergeOnHexId(hdr, trows, grid)
    IN  IF Len(m.rows) = 0 THEN UploadResult(Some(m), NoFig, "ok")
        ELSE LET p == PlotMatchedHexes(Some(m), Some("value"), name)
             IN  IF p.ok THEN UploadResult(Some(m), p.v, "ok")
                 ELSE UploadResult(Some(m), NoFig, "exception")

\* a plausible slip: no st.stop, the run goes on with an empty result
ProcessUploadNoStop(lm, file, grid, name) ==
    LET hdr   == Get(file).hdr
        trows == Get(file).rows
    IN  IF "code" \in Range(hdr) /\ lm /= None
          THEN UploadByCode(Get(lm), hdr, trows, grid, name)
        ELSE IF "hex_id" \in Range(hdr)
          THEN UploadByHexId(hdr, trows, grid, name)
        ELSE UploadResult(Some(Frame(GridColumns, << >>)), NoFig, "ok")

\* lines 297-321: the branch taken for an upload
ProcessUpload(lm, file, grid, name) ==
    LET hdr   == Get(file).hdr
        trows == Get(file).rows
    IN  IF "code" \in Range(hdr) /\ lm /= None
          THEN UploadByCode(Get(lm), hdr, trows, grid, name)
        ELSE IF "hex_id" \in Range(hdr)
          THEN UploadByHexId(hdr, trows, grid, name)
        ELSE UploadResult(None, NoFig, "stop")

\* lines 250-259
StLoadMapping ==
    /\ app = "streamlit" /\ pc = "start"
    /\ hex_grid' = MakeHexGrid(rows, cols, orientation)
    /\ mapping_df' = LoadLocalMapping(mapping_file)
    /\ pc' = "mapped"
    /\ UNCHANGED << app, mapping_file, values_file, cmap_name, show_mode,
                    merged, preview, fig, export, outcome >>
    /\ UNCHANGED gridVars /\ UNCHANGED codeVars

\* lines 264-271: the matched hexes of the mapping, drawn before the upload
StPreview ==
    /\ app = "streamlit" /\ pc = "mapped"
    /\ preview' = IF mapping_df = None THEN NoFig
                  ELSE PlotMatchedHexes(Some(PreviewMerged(Get(mapping_df), hex_grid)),
                                        None, cmap_name).v
    /\ pc' = "previewed"
    /\ UNCHANGED << app, mapping_file, values_file, cmap_name, show_mode, hex_grid,
                    mapping_df, merged, fig, export, outcome >>
    /\ UNCHANGED gridVars /\ UNCHANGED codeVars

\* lines 276-321
StProcessUpload ==
    /\ app = "streamlit" /\ pc = "previewed"
    /\ IF values_file = None
         THEN /\ pc' = "done" /\ outcome' = "done"
              /\ UNCHANGED << merged, fig >>
         ELSE LET res == ProcessUpload(mapping_df, values_file, hex_grid, cmap_name)
              IN  /\ merged' = res.merged
                  /\ fig' = res.fig
                  /\ pc' = CASE res.end = "ok" -> "resolved"
                             [] res.end = "stop" -> "stopped"
                             [] OTHER -> "crashed"
                  /\ outcome' = CASE res.end = "ok" -> outcome
                                  [] res.end = "stop" -> "stopped"
                                  [] OTHER -> "exception"
    /\ UNCHANGED << app, mapping_file, values_file, cmap_name, show_mode, hex_grid,
                    mapping_df, preview, export >>
    /\ UNCHANGED gridVars /\ UNCHANGED codeVars

\* lines 323-339: the matched rows without verts, offered as CSV when there
\* are any
StExport ==
    /\ app = "streamlit" /\ pc = "resolved"
    /\ export' = IF Len(Get(merged).rows) = 0 THEN None
                 ELSE Some(Frame(Get(merged).cols \ {"verts"}, Get(merged).rows))
    /\ pc' = "done"
    /\ outcome' = "done"
    /\ UNCHANGED << app, mapping_file, values_file, cmap_name, show_mode, hex_grid,
                    mapping_df, merged, preview, fig >>
    /\ UNCHANGED gridVars /\ UNCHANGED codeVars

----------------------------------------------------------------------------
(* Specification Spec: one run of either script on an uploaded mapping     *)
(* table and value table.  The inputs are drawn from families of small     *)
(* tables, one family per way the tables can be keyed, and the two         *)
(* end-to-end scenarios of the specification.                              *)

GridRows == 2
GridCols == 2
MaxMapRows == 2
MaxValRows == 2
MaxKeyedRows == 1

\* the first id past the grid
OutId == GridRows * GridCols

AA == <<"A", "A">>
BB == <<"B", "B">>
CC == <<"C", "C">>
DD == <<"D", "D">>
LowerBB == <<"b", "b">>
DottedBB == <<"b", ".", "b">>
Junk == <<"x">>

Seqs(S, n) == UNION {[1..k -> S] : k \in 1..n}

Cells(S) == {Num(n) : n \in S}
Texts(S) == {Str(s) : s \in S}

MappingTables(ids, codes, n) ==
    {[hdr |-> <<"hex_id", "code">>, rows |-> rs] :
        rs \in Seqs([hex_id : ids, code : codes], n)}

CodeValueTables(codes, values, n) ==
    {[hdr |-> <<"code", "value">>, rows |-> rs] :
        rs \in Seqs([code : codes, value : values], n)}

HexIdValueTables(ids, values, n) ==
    {[hdr |-> <<"hex_id", "value">>, rows |-> rs] :
        rs \in Seqs([hex_id : ids, value : values], n)}

CodeHexIdValueTables(codes, ids, values, n) ==
    {[hdr |-> <<"code", "hex_id", "value">>, rows |-> rs] :
        rs \in Seqs([code : codes, hex_id : ids, value : values], n)}

\* a table whose first column has an unrecognised header
OtherValueTables(keys, values, n) ==
    {[hdr |-> <<"x", "value">>, rows |-> rs] :
        rs \in Seqs([x : keys, value : values], n)}

OtherTables(keys, n) ==
    {[hdr |-> <<"x">>, rows |-> rs] : rs \in Seqs([x : keys], n)}

Files(T) == {Some(t) : t \in T}

Inputs(M, V, C) == [mapping : M, values : V, cmap : C]

TwoValues == Cells({10, 20})
AnyValues == Cells({10, 20}) \cup {Str(Junk), NaN}

CodedMappings == MappingTables(Cells({0, 1}), Texts({AA, DottedBB}), MaxMapRows)

\* a mapping table and a value table with a code column
InputsByCode ==
    Inputs(Files(CodedMappings),
           Files(CodeValueTables(Texts({AA, BB, LowerBB}), TwoValues, MaxValRows)
                 \cup CodeHexIdValueTables(Texts({AA, LowerBB}), Cells({0, 1}),
                                           TwoValues, MaxKeyedRows)),
           {"viridis"})

\* a value table with a hex_id column
InputsByHexId ==
    Inputs({None} \cup Files(MappingTables(Cells({0}), Texts({AA}), 1)),
           Files(HexIdValueTables(Cells({0, 1, OutId}) \cup {Str(Junk), NaN},
                                  TwoValues, MaxValRows)
                 \cup CodeHexIdValueTables(Texts({AA}), Cells({0, 1}), TwoValues,
                                           MaxKeyedRows)),
           {"viridis"})

\* a value table with no key the script can use
InputsNoKey ==
    Inputs({None} \cup Files(CodedMappings),
           Files(OtherValueTables(Texts({AA, LowerBB}), TwoValues, MaxValRows)
                 \cup OtherTables(Texts({AA, LowerBB}), MaxValRows)),
           {"viridis"})
    \cup Inputs({None},
                Files(CodeValueTables(Texts({AA, LowerBB}), TwoValues, MaxValRows)),
                {"viridis"})

\* no value table
InputsNoUpload ==
    Inputs({None} \cup Files(MappingTables(Cells({0, 1, OutId}), Texts({AA, DottedBB}),
                                           MaxMapRows)),
           {None}, {"viridis"})

\* values that are numbers, texts or empty, under a known and an unknown colormap
InputsEncoding ==
    Inputs({None, Some([hdr |-> <<"hex_id", "code">>,
                        rows |-> << [hex_id |-> Num(0), code |-> Str(AA)],
                                    [hex_id |-> Num(1), code |-> Str(DottedBB)] >>])},
           Files(HexIdValueTables(Cells({0, 1}), AnyValues, MaxValRows)
                 \cup CodeValueTables(Texts({AA, BB}), AnyValues, MaxValRows)),
           {"viridis", "not_a_real_scale"})

\* a mapping table with ids past the grid
InputsOutside ==
    Inputs(Files(MappingTables(Cells({0, 1, OutId}), Texts({AA}), MaxMapRows)),
           Files(CodeValueTables(Texts({AA}), TwoValues, MaxValRows)),
           {"viridis"})

ScenarioAMapping ==
    [hdr |-> <<"hex_id", "code">>,
     rows |-> << [hex_id |-> Num(0), code |-> Str(AA)], [hex_id |-> Num(1), code |-> Str(BB)],
                 [hex_id |-> Num(2), code |-> Str(CC)], [hex_id |-> Num(3), code |-> Str(DD)] >>]

ScenarioAValues ==
    [hdr |-> <<"code", "value">>,
     rows |-> << [code |-> Str(AA), value |-> Num(10)], [code |-> Str(BB), value |-> Num(20)] >>]

ScenarioBValues ==
    [hdr |-> <<"hex_id", "value">>, rows |-> << [hex_id |-> Num(0), value |-> Num(5)] >>]

ScenarioA == [mapping |-> Some(ScenarioAMapping), values |-> Some(ScenarioAValues),
              cmap |-> "viridis"]
ScenarioB == [mapping |-> None, values |-> Some(ScenarioBValues), cmap |-> "viridis"]

RunInputs == InputsByCode \cup InputsByHexId \cup InputsNoKey \cup InputsNoUpload
             \cup InputsEncoding \cup InputsOutside \cup {ScenarioA, ScenarioB}

Init ==
    /\ app \in {"app", "streamlit"}
    /\ pc = "start"
    /\ rows = GridRows /\ cols = GridCols /\ orientation = "flat"
    /\ row = 0 /\ col = 0 /\ hexes = << >>
    /\ CodeIdle
    /\ \E in \in RunInputs :
          /\ mapping_file = in.mapping
          /\ values_file = in.values
          /\ cmap_name = in.cmap
    /\ show_mode = "none" /\ hex_grid = << >> /\ mapping_df = None /\ merged = None
    /\ preview = NoFig /\ fig = NoFig /\ export = None /\ outcome = "running"

Next ==
    \/ AppReadMapping
    \/ AppReadValues
    \/ AppPlot
    \/ AppExport
    \/ StLoadMapping
    \/ StPreview
    \/ StProcessUpload
    \/ StExport

Spec == Init /\ [][Next]_vars

----------------------------------------------------------------------------
(* C1: in every state of make_hex_grid the i-th cell appended (0-based)    *)
(* has hex_id = i = row * cols + col with 0 <= row < rows and              *)
(* 0 <= col < cols; the returned DataFrame has exactly rows * cols cells   *)
(* whose ids are unique and cover exactly 0 .. rows * cols - 1.            *)
C1_RowMajorIds ==
    /\ \A i \in 1..Len(hexes) :
          /\ hexes[i].hex_id = i - 1
          /\ hexes[i].hex_id = hexes[i].row * cols + hexes[i].col
          /\ hexes[i].row \in 0..(rows - 1)
          /\ hexes[i].col \in 0..(cols - 1)
    /\ pc = "grid_done" =>
          /\ Len(hex_grid) = rows * cols
          /\ {hex_grid[i].hex_id : i \in 1..Len(hex_grid)} = 0..(rows * cols - 1)
          /\ \A i, j \in 1..Len(hex_grid) :
                hex_grid[i].hex_id = hex_grid[j].hex_id => i = j
          /\ hex_grid = MakeHexGrid(rows, cols, orientation)

\* a 2 x 3 grid has been returned
C1_Witness ==
    /\ pc = "grid_done" /\ rows = 2 /\ cols = 3
    /\ Len(hex_grid) = 6 /\ hex_grid[6].hex_id = 5

----------------------------------------------------------------------------
(* Edits of a text that the cleaning is to ignore. *)

SwapCaseChar(c) ==
    CASE c = "a" -> "A" [] c = "k" -> "K" [] c = "x" -> "X"
      [] c = "A" -> "a" [] c = "K" -> "k" [] c = "X" -> "x" [] OTHER -> c

SwapCaseAt(s, i) == [j \in 1..Len(s) |-> IF j = i THEN SwapCaseChar(s[j]) ELSE s[j]]

\* c inserted after the first i characters of s
InsertAt(s, i, c) == SubSeq(s, 1, i) \o << c >> \o SubSeq(s, i + 1, Len(s))

LettersAfter(s, i) == Len(StripNonLetters(SubSeq(s, i + 1, Len(s))))

(* C7: cleaning a cleaned code changes nothing, and the cleaned code is    *)
(* unchanged by a change of case, by an inserted non-letter and by a       *)
(* letter inserted before the last two letters; "ka", "K.A!" and "xKA"     *)
(* all clean to "KA".                                                      *)
C7_CleanIdempotentInsensitive ==
    /\ IsSome(code_again) => Get(code_again) = Get(code_out)
    /\ IsSome(code_out) =>
          /\ \A i \in 1..Len(code_in) :
                CleanCode(SwapCaseAt(code_in, i)) = Get(code_out)
          /\ \A i \in 0..Len(code_in) : \A c \in CodeChars :
                (~IsLetter(c) \/ LettersAfter(code_in, i) >= 2) =>
                    CleanCode(InsertAt(code_in, i, c)) = Get(code_out)
          /\ code_in \in { <<"k", "a">>, <<"K", ".", "A", "!">>, <<"x", "K", "A">> }
                => Get(code_out) = <<"K", "A">>

\* "K.A!" has been cleaned to "KA", twice
C7_Witness ==
    /\ code_in = <<"K", ".", "A", "!">>
    /\ code_out = Some(<<"K", "A">>)
    /\ code_again = Some(<<"K", "A">>)

----------------------------------------------------------------------------
(* The inputs and the result of a run, as the claims below speak of them. *)

HasMapping == mapping_file /= None
HasValues  == values_file /= None
MapRows == Get(mapping_file).rows
ValRows == Get(values_file).rows
ValHdr  == Range(Get(values_file).hdr)
Enriched == Get(merged).rows
GridIds == 0..(rows * cols - 1)

\* the cleaned code of a mapping record
MappedCode(m) == CleanCode(AsStr(m["code"]))

\* the resolve step is over: the value table has been merged, or the script
\* has stopped or raised
AfterResolve == pc \in {"resolved", "plotted", "done", "stopped", "crashed"}

\* the rows of the enriched set for grid cell id
RowsOf(id) == {i \in 1..Len(Enriched) : Enriched[i].hex_id = id}

\* rule 1: a mapping table and a value table with a code column
RuleOne == HasMapping /\ HasValues /\ "code" \in ValHdr

\* rule 2: no mapping table, a value table with a hex_id column
RuleTwo == ~HasMapping /\ HasValues /\ "hex_id" \in ValHdr

\* value rows are matched to mapping records by the code join
JoinedByCode ==
    /\ \A i \in 1..Len(Enriched) :
          (IsSome(Enriched[i].code) /\ Enriched[i].value /= NaN) =>
              \E j \in 1..Len(ValRows) :
                  /\ ValRows[j]["code"] = Str(Get(Enriched[i].code))
                  /\ ValRows[j]["value"] = Enriched[i].value
    /\ \A i \in 1..Len(MapRows) : \A j \in 1..Len(ValRows) :
          (MapRows[i]["hex_id"].n \in GridIds
             /\ ValRows[j]["code"] = Str(MappedCode(MapRows[i]))) =>
              \E k \in RowsOf(MapRows[i]["hex_id"].n) :
                  /\ Enriched[k].code = Some(MappedCode(MapRows[i]))
                  /\ Enriched[k].value = ValRows[j]["value"]

(* C2: with a mapping table and a value table that has a code column and   *)
(* also a hex_id column, the resolve step yields an enriched set in which  *)
(* a cell's value is the value of a row whose code equals the cell's       *)
(* mapped code; the hex_id column of the value table decides nothing.      *)
C2_CodeJoinDecides ==
    (RuleOne /\ "hex_id" \in ValHdr /\ AfterResolve) =>
        /\ IsSome(merged)
        /\ JoinedByCode

\* the same statement of src/app.py alone
C2_HoldsInApp == app = "app" => C2_CodeJoinDecides

----------------------------------------------------------------------------
(* C3. *)

\* some value row carries exactly the code c
Carried(c) == \E j \in 1..Len(ValRows) : ValRows[j]["code"] = Str(c)

ScenarioARun == mapping_file = Some(ScenarioAMapping) /\ values_file = Some(ScenarioAValues)

\* the values of the enriched rows, in order
EnrichedValues == [i \in 1..Len(Enriched) |-> Enriched[i].value]
EnrichedIds    == [i \in 1..Len(Enriched) |-> Enriched[i].hex_id]
EnrichedCodes  == [i \in 1..Len(Enriched) |-> Enriched[i].code]

\* every grid cell with a mapping record is in the enriched set, with a
\* null value when no value row carries its code
MappedCellsKept ==
    /\ IsSome(merged)
    /\ \A i \in 1..Len(MapRows) :
          MapRows[i]["hex_id"].n \in GridIds =>
              \E k \in RowsOf(MapRows[i]["hex_id"].n) :
                  /\ Enriched[k].code = Some(MappedCode(MapRows[i]))
                  /\ ~Carried(MappedCode(MapRows[i])) => Enriched[k].value = NaN

ScenarioAFourRows ==
    /\ EnrichedIds = <<0, 1, 2, 3>>
    /\ EnrichedValues = <<Num(10), Num(20), NaN, NaN>>
    /\ EnrichedCodes = <<Some(AA), Some(BB), Some(CC), Some(DD)>>

(* C3 as claimed, on value tables without a hex_id column: under rule 1    *)
(* every cell that has a mapping record is in the enriched set, with a     *)
(* null value when no value row carries its code; scenario A gives 4 rows, *)
(* values 10, 20, null, null and codes AA, BB, CC, DD.                     *)
C3_AsClaimed ==
    (RuleOne /\ "hex_id" \notin ValHdr /\ AfterResolve) =>
        /\ MappedCellsKept
        /\ (ScenarioARun /\ rows = 2 /\ cols = 2) => ScenarioAFourRows

\* the enriched set holds exactly the pairs of a mapping record and a value
\* row with the record's cleaned code
OnlyMatchedRecords ==
    /\ IsSome(merged)
    /\ JoinedByCode
    /\ \A k \in 1..Len(Enriched) :
          \E i \in 1..Len(MapRows) : \E j \in 1..Len(ValRows) :
              /\ Enriched[k].hex_id = MapRows[i]["hex_id"].n
              /\ Enriched[k].code = Some(MappedCode(MapRows[i]))
              /\ ValRows[j]["code"] = Str(MappedCode(MapRows[i]))
              /\ Enriched[k].value = ValRows[j]["value"]

(* C3 as amended: under rule 1 (a mapping table with integer ids),         *)
(* src/app.py keeps every grid cell: each cell with a mapping record is in *)
(* the enriched set, with a null value when no value row carries exactly   *)
(* its cleaned code, and scenario A gives the 4 rows of the claim.         *)
(* src/streamlit_app.py keeps only the pairs of a mapping record and a     *)
(* value row carrying its cleaned code: a mapped cell without such a row   *)
(* is absent, and scenario A gives 2 rows, cells 0 and 1 with 10 and 20;   *)
(* when the value table also has a hex_id column it raises and there is no *)
(* enriched set.                                                           *)
C3_KeptInAppMatchedOnlyInStreamlit ==
    (RuleOne /\ AfterResolve) =>
        /\ app = "app" =>
              /\ MappedCellsKept
              /\ \A id \in GridIds : RowsOf(id) /= {}
              /\ (ScenarioARun /\ rows = 2 /\ cols = 2) => ScenarioAFourRows
        /\ (app = "streamlit" /\ "hex_id" \notin ValHdr) =>
              /\ OnlyMatchedRecords
              /\ ScenarioARun =>
                    /\ EnrichedIds = <<0, 1>>
                    /\ EnrichedValues = <<Num(10), Num(20)>>
        /\ (app = "streamlit" /\ "hex_id" \in ValHdr) =>
              merged = None /\ outcome = "exception"

\* scenario A has run in src/streamlit_app.py and left two rows
C3_Witness ==
    /\ app = "streamlit" /\ pc = "done" /\ ScenarioARun
    /\ Len(Enriched) = 2
    /\ export /= None

----------------------------------------------------------------------------
(* C4. *)

ScenarioBRun == mapping_file = None /\ values_file = Some(ScenarioBValues)

\* a row with a value has the id and the value of some value row
ValuesComeFromNamingRows ==
    \A k \in 1..Len(Enriched) :
        Enriched[k].value /= NaN =>
            \E j \in 1..Len(ValRows) :
                /\ ValRows[j]["hex_id"] = Num(Enriched[k].hex_id)
                /\ ValRows[j]["value"] = Enriched[k].value

\* a value row that names a grid cell gives the cell its value
NamedCellsCarryValues ==
    \A j \in 1..Len(ValRows) :
        (ValRows[j]["hex_id"].k = "int" /\ ValRows[j]["hex_id"].n \in GridIds) =>
            \E k \in RowsOf(ValRows[j]["hex_id"].n) :
                Enriched[k].value = ValRows[j]["value"]

Named(id) == \E j \in 1..Len(ValRows) : ValRows[j]["hex_id"] = Num(id)

\* a grid cell no value row names is present, once, with a null value
OtherCellsPresentNull ==
    \A id \in GridIds :
        ~Named(id) => /\ Cardinality(RowsOf(id)) = 1
                      /\ \A k \in RowsOf(id) : Enriched[k].value = NaN

\* every enriched row is a grid cell named by a value row whose value it has
OnlyNamedCells ==
    \A k \in 1..Len(Enriched) :
        /\ Enriched[k].hex_id \in GridIds
        /\ \E j \in 1..Len(ValRows) :
              /\ ValRows[j]["hex_id"] = Num(Enriched[k].hex_id)
              /\ UploadValue(Get(values_file).hdr, ValRows[j]) = Enriched[k].value

NoCellHasValue == \A k \in 1..Len(Enriched) : Enriched[k].value = NaN

\* the ids of the value table were read as text
IdsReadAsText == \E j \in 1..Len(ValRows) : ValRows[j]["hex_id"].k = "str"

(* C4 as claimed, on value tables without a code column whose ids are     *)
(* integers or empty: under rule 2 a value row that names no grid cell     *)
(* gives no value, a cell named by a value row has that row's value, and   *)
(* every other grid cell is present with a null value; scenario B gives    *)
(* cell 0 with 5 and cells 1, 2, 3 with null.                              *)
C4_AsClaimed ==
    (RuleTwo /\ "code" \notin ValHdr /\ ~IdsReadAsText /\ AfterResolve) =>
        /\ IsSome(merged)
        /\ ValuesComeFromNamingRows
        /\ NamedCellsCarryValues
        /\ OtherCellsPresentNull
        /\ (ScenarioBRun /\ rows = 2 /\ cols = 2) =>
              /\ EnrichedIds = <<0, 1, 2, 3>>
              /\ EnrichedValues = <<Num(5), NaN, NaN, NaN>>

(* C4 as amended: under rule 2 a value has the id of a value row that      *)
(* carries it, in both programs.  src/streamlit_app.py coerces the ids and *)
(* keeps exactly the grid cells named by a value row, each with that row's *)
(* value; every other cell is absent, and scenario B gives the single row  *)
(* of cell 0 with 5.  src/app.py keeps every grid cell; when the value     *)
(* table has no code column and no id is a text, a named cell has its      *)
(* row's value and every other cell is present once with a null value      *)
(* (scenario B: 4 rows, 5, null, null, null); when an id is a text or the  *)
(* table also has a code column, no cell gets a value.                     *)
C4_InnerInStreamlitLeftInApp ==
    (RuleTwo /\ AfterResolve) =>
        /\ IsSome(merged)
        /\ ValuesComeFromNamingRows
        /\ app = "streamlit" =>
              /\ NamedCellsCarryValues
              /\ OnlyNamedCells
              /\ ScenarioBRun => EnrichedIds = <<0>> /\ EnrichedValues = <<Num(5)>>
        /\ app = "app" =>
              /\ \A id \in GridIds : RowsOf(id) /= {}
              /\ ("code" \notin ValHdr /\ ~IdsReadAsText) =>
                    /\ NamedCellsCarryValues
                    /\ OtherCellsPresentNull
                    /\ (ScenarioBRun /\ rows = 2 /\ cols = 2) =>
                          /\ EnrichedIds = <<0, 1, 2, 3>>
                          /\ EnrichedValues = <<Num(5), NaN, NaN, NaN>>
              /\ ("code" \in ValHdr \/ IdsReadAsText) =>
                    /\ NoCellHasValue
                    /\ EnrichedIds = [i \in 1..(rows * cols) |-> i - 1]

\* scenario B has run in src/streamlit_app.py and left the row of cell 0
C4_Witness ==
    /\ app = "streamlit" /\ pc = "done" /\ ScenarioBRun
    /\ EnrichedIds = <<0>>
    /\ fig.kind = "figure"

----------------------------------------------------------------------------
(* C5. *)

\* no mapping table and a value table without a hex_id column
NoKeyNoMapping == ~HasMapping /\ HasValues /\ "hex_id" \notin ValHdr

NothingProduced ==
    /\ outcome = "stopped"
    /\ merged = None
    /\ preview = NoFig /\ fig = NoFig
    /\ export = None

(* C5 as claimed: with no mapping table and a value table without a usable *)
(* key the resolve step ends in the failure of the whole run: no enriched  *)
(* set, nothing drawn, nothing exported.                                   *)
C5_AsClaimed == (NoKeyNoMapping /\ AfterResolve) => NothingProduced

(* C5 as amended: with no mapping table and a value table without a hex_id *)
(* column, src/streamlit_app.py stops the run (st.stop): no enriched set,  *)
(* nothing drawn, nothing exported.  src/app.py does not fail at the       *)
(* resolve step: the enriched set is every grid cell once, in order, with  *)
(* a null code and a null value, and a run that ends exports these rows.   *)
C5_StopsInStreamlitOnly ==
    (NoKeyNoMapping /\ AfterResolve) =>
        /\ app = "streamlit" => NothingProduced
        /\ app = "app" =>
              /\ outcome /= "stopped"
              /\ IsSome(merged)
              /\ EnrichedIds = [i \in 1..(rows * cols) |-> i - 1]
              /\ \A k \in 1..Len(Enriched) :
                    Enriched[k].code = None /\ Enriched[k].value = NaN
              /\ pc = "done" => (export /= None /\ Get(export).rows = Enriched)

\* src/streamlit_app.py has stopped on a table with the columns x and value
C5_Witness ==
    /\ app = "streamlit" /\ pc = "stopped" /\ NoKeyNoMapping
    /\ Get(values_file).hdr = <<"x", "value">>
    /\ outcome = "stopped"

----------------------------------------------------------------------------
(* C6. *)

\* rule 3: a mapping table and a value table with neither code nor hex_id
RuleThree == HasMapping /\ HasValues /\ "code" \notin ValHdr /\ "hex_id" \notin ValHdr

\* every grid cell is in the enriched set, with the codes of its mapping
\* records, or once with a null code when it has none
CellsDecorated ==
    /\ \A id \in GridIds : RowsOf(id) /= {}
    /\ \A i \in 1..Len(MapRows) :
          MapRows[i]["hex_id"].n \in GridIds =>
              \E k \in RowsOf(MapRows[i]["hex_id"].n) :
                  Enriched[k].code = Some(MappedCode(MapRows[i]))
    /\ \A k \in 1..Len(Enriched) :
          IF \E i \in 1..Len(MapRows) : MapRows[i]["hex_id"] = Num(Enriched[k].hex_id)
            THEN \E i \in 1..Len(MapRows) :
                    /\ MapRows[i]["hex_id"] = Num(Enriched[k].hex_id)
                    /\ Enriched[k].code = Some(MappedCode(MapRows[i]))
            ELSE Enriched[k].code = None

(* C6 as claimed: under rule 3 the resolve step does not fail, the         *)
(* enriched set holds every grid cell with its mapping code, and every     *)
(* value is null.                                                          *)
C6_AsClaimed ==
    (RuleThree /\ AfterResolve) =>
        /\ outcome \notin {"stopped", "exception"}
        /\ IsSome(merged)
        /\ CellsDecorated
        /\ NoCellHasValue

\* the first column of the value table is taken for the code, the second
\* for the value
JoinedByFirstColumn ==
    /\ \A k \in 1..Len(Enriched) :
          Enriched[k].value /= NaN =>
              /\ IsSome(Enriched[k].code)
              /\ \E j \in 1..Len(ValRows) :
                    /\ ValRows[j]["x"] = Str(Get(Enriched[k].code))
                    /\ ValRows[j]["value"] = Enriched[k].value
    /\ \A k \in 1..Len(Enriched) : \A j \in 1..Len(ValRows) :
          (IsSome(Enriched[k].code) /\ ValRows[j]["x"] = Str(Get(Enriched[k].code))) =>
              \E l \in RowsOf(Enriched[k].hex_id) :
                  /\ Enriched[l].code = Enriched[k].code
                  /\ Enriched[l].value = ValRows[j]["value"]

(* C6 as amended: under rule 3 src/streamlit_app.py stops the run          *)
(* (st.stop): no enriched set, no figure of the upload, no export.         *)
(* src/app.py does not fail: the enriched set holds every grid cell with   *)
(* its mapping codes; a value table of one column leaves it without a      *)
(* value column, and of a table with two columns the first is taken for    *)
(* the code and the second for the value, so a cell has the value of the   *)
(* rows whose first column equals its cleaned code and a null value when   *)
(* there is none.                                                          *)
C6_StopsInStreamlitPositionalInApp ==
    (RuleThree /\ AfterResolve) =>
        /\ app = "streamlit" =>
              outcome = "stopped" /\ merged = None /\ fig = NoFig /\ export = None
        /\ app = "app" =>
              /\ outcome /= "stopped"
              /\ IsSome(merged)
              /\ CellsDecorated
              /\ Len(Get(values_file).hdr) = 1 =>
                    "value" \notin Get(merged).cols /\ NoCellHasValue
              /\ Len(Get(values_file).hdr) = 2 =>
                    "value" \in Get(merged).cols /\ JoinedByFirstColumn

\* src/app.py has given cell 0 the value 10 of a row keyed by its first column
C6_Witness ==
    /\ app = "app" /\ pc = "resolved" /\ RuleThree
    /\ Get(values_file).hdr = <<"x", "value">>
    /\ \E k \in RowsOf(0) : Enriched[k].code = Some(AA) /\ Enriched[k].value = Num(10)

----------------------------------------------------------------------------
(* C8. *)

\* the values on the rows of grid cell id that have the code c
ValuesOn(id, c) ==
    {Enriched[k].value : k \in {l \in RowsOf(id) : Enriched[l].code = Some(c)}} \ {NaN}

\* the values of the value rows whose code is, letter for letter, c
ValuesCarriedVerbatim(c) ==
    {ValRows[j]["value"] : j \in {l \in 1..Len(ValRows) : ValRows[l]["code"] = Str(c)}} \ {NaN}

\* the values of the value rows whose cleaned code is c
ValuesCarriedCleaned(c) ==
    {ValRows[j]["value"] :
        j \in {l \in 1..Len(ValRows) : CleanCode(AsStr(ValRows[l]["code"])) = c}} \ {NaN}

(* C8 as claimed, on value tables without a hex_id column: the codes of    *)
(* the value table are cleaned like those of the mapping table before the  *)
(* code join, so a mapped cell has the values of the rows whose cleaned    *)
(* code is its cleaned code ("bb" matches a record cleaned to "BB").       *)
C8_AsClaimed ==
    (RuleOne /\ "hex_id" \notin ValHdr /\ AfterResolve) =>
        /\ IsSome(merged)
        /\ \A i \in 1..Len(MapRows) :
              MapRows[i]["hex_id"].n \in GridIds =>
                  ValuesOn(MapRows[i]["hex_id"].n, MappedCode(MapRows[i]))
                      = ValuesCarriedCleaned(MappedCode(MapRows[i]))

(* C8 as amended: only the codes of the mapping table are cleaned; the     *)
(* codes of the value table are compared as they are with the cleaned      *)
(* mapping codes, in both programs (in src/streamlit_app.py: for a value   *)
(* table without a hex_id column).  A mapped cell has exactly the values   *)
(* of the rows whose code is letter for letter its cleaned code: a value   *)
(* row with the code "bb" does not match a record cleaned to "BB".         *)
C8_ValueCodesVerbatim ==
    (RuleOne /\ (app = "streamlit" => "hex_id" \notin ValHdr) /\ AfterResolve) =>
        /\ IsSome(merged)
        /\ \A i \in 1..Len(MapRows) :
              MapRows[i]["hex_id"].n \in GridIds =>
                  ValuesOn(MapRows[i]["hex_id"].n, MappedCode(MapRows[i]))
                      = ValuesCarriedVerbatim(MappedCode(MapRows[i]))

\* cell 0 is mapped to "b.b", cleaned to "BB"; the only value row has the
\* code "bb", and cell 0 is in the enriched set of src/app.py without a value
C8_Witness ==
    /\ app = "app" /\ pc = "resolved" /\ RuleOne
    /\ MapRows = << [hex_id |-> Num(0), code |-> Str(DottedBB)] >>
    /\ ValRows = << [code |-> Str(LowerBB), value |-> Num(10)] >>
    /\ \E k \in RowsOf(0) : Enriched[k].code = Some(BB) /\ Enriched[k].value = NaN

----------------------------------------------------------------------------
(* C9. *)

\* a figure has been made from the value column of a non-empty enriched set
ValuesEncoded ==
    /\ IsSome(merged)
    /\ "value" \in Get(merged).cols
    /\ Len(Enriched) > 0
    /\ \/ app = "app" /\ pc \in {"plotted", "done"} /\ show_mode = "choropleth"
       \/ app = "streamlit" /\ pc \in {"resolved", "done"}

\* every value of the enriched set is a number or missing, and one is a number
NumbersToEncode ==
    /\ \A k \in 1..Len(Enriched) : Enriched[k].value.k \in {"int", "nan"}
    /\ \E k \in 1..Len(Enriched) : Enriched[k].value.k = "int"

(* C9: encoding the values of an enriched set (numbers, at least one)      *)
(* under a colormap name that is not a known colormap ends in an error; no *)
(* figure is made with a neutral fill or another colormap in its place.    *)
C9_UnknownPaletteIsError ==
    (cmap_name \notin KnownCmaps /\ ValuesEncoded /\ NumbersToEncode) =>
        fig.kind /= "figure"

----------------------------------------------------------------------------
(* C10. *)

\* some entries of the value column are non-numeric text, some are numbers
MixedValueColumn ==
    /\ HasValues
    /\ "value" \in ValHdr
    /\ \E j \in 1..Len(ValRows) : ValRows[j]["value"].k = "str"
    /\ \E j \in 1..Len(ValRows) : ValRows[j]["value"].k = "int"

MissingFills == {White, BadColour(cmap_name)}

(* C10: with a value column of which some but not all entries are          *)
(* non-numeric text (a known colormap, one key column), the run does not   *)
(* raise; where the values are encoded a text entry's cell has the fill of *)
(* a missing value and a numeric entry's cell a colour of the colormap.    *)
C10_ParseOrNull ==
    (MixedValueColumn /\ cmap_name \in KnownCmaps
        /\ ~({"code", "hex_id"} \subseteq ValHdr)) =>
        /\ outcome /= "exception"
        /\ ValuesEncoded =>
              /\ Len(fig.polys) = Len(Enriched)
              /\ \A k \in 1..Len(Enriched) :
                    /\ Enriched[k].value.k = "str" => fig.polys[k].colour \in MissingFills
                    /\ Enriched[k].value.k = "int" => fig.polys[k].colour.kind = "cmap"

----------------------------------------------------------------------------
(* C11. *)

\* the script has drawn the figure of the enriched set
FigureMade ==
    /\ fig.kind = "figure"
    /\ IsSome(merged)
    /\ \/ app = "app" /\ pc \in {"plotted", "done"}
       \/ app = "streamlit" /\ pc \in {"resolved", "done"}

\* some cell of the enriched set has a number for its value
HasNumber == \E k \in 1..Len(Enriched) : Enriched[k].value.k = "int"

\* the numbers among the values of the enriched set
EnrichedNumbers == {Enriched[k].value.n : k \in {l \in 1..Len(Enriched) : Enriched[l].value.k = "int"}}

HasLegend == IsSome(fig.legend)

\* every hexagon of the figure has the fill c
AllFilled(c) == \A k \in 1..Len(fig.polys) : fig.polys[k].colour = c

OneFill == \A k, l \in 1..Len(fig.polys) : fig.polys[k].colour = fig.polys[l].colour

\* every value of the enriched set is missing
AllValuesNull == \A k \in 1..Len(Enriched) : Enriched[k].value = NaN

\* the run has gone past the drawing of the enriched set
AfterPlot ==
    \/ app = "app" /\ pc \in {"plotted", "done", "crashed"} /\ show_mode /= "none"
    \/ app = "streamlit" /\ pc \in {"resolved", "done", "crashed"} /\ HasValues

(* C11 as claimed: a figure of the enriched set has a legend exactly when   *)
(* some cell has a number for its value, and when no cell has one every     *)
(* hexagon has the same fill and there is no legend.                        *)
C11_AsClaimed ==
    FigureMade =>
        /\ HasLegend <=> HasNumber
        /\ ~HasNumber => OneFill

(* C11 as amended: a figure that encodes the value column (src/app.py in    *)
(* the mode Choropleth, src/streamlit_app.py for an upload) has a legend    *)
(* exactly when some cell has a number for its value, and the legend spans  *)
(* the least and the greatest number.  A figure that does not encode the    *)
(* values (src/app.py in the modes Full grid and Only hexes with code, or   *)
(* no value column) has the one grey fill and no legend, whatever the       *)
(* values.  In every figure without a number all hexagons have the same     *)
(* fill; and when all values are missing, the colormap is known and every   *)
(* row has its cell, drawing the enriched set does not raise.               *)
C11_LegendIffNumberEncoded ==
    /\ FigureMade =>
          /\ ValuesEncoded =>
                /\ HasLegend <=> HasNumber
                /\ HasNumber =>
                      /\ Get(fig.legend).vmin = SetMin(EnrichedNumbers)
                      /\ Get(fig.legend).vmax = SetMax(EnrichedNumbers)
          /\ ~ValuesEncoded =>
                /\ ~HasLegend
                /\ AllFilled(IF app = "app" THEN Grey90 ELSE Grey92)
          /\ ~HasNumber => (~HasLegend /\ OneFill)
    /\ (AfterPlot /\ IsSome(merged) /\ AllValuesNull /\ cmap_name \in KnownCmaps
            /\ \A k \in 1..Len(Enriched) : IsSome(Enriched[k].cell)) =>
          /\ outcome /= "exception"
          /\ ValuesEncoded => (FigureMade /\ ~HasLegend /\ OneFill)

\* src/app.py has drawn a choropleth of values 10 and 20 with its legend
C11_Witness ==
    /\ app = "app" /\ pc = "plotted" /\ show_mode = "choropleth"
    /\ FigureMade
    /\ fig.legend = Some(Legend("viridis", 10, 20))

\* src/app.py has drawn a choropleth of missing values only: one fill, no legend
C11_WitnessNoData ==
    /\ app = "app" /\ pc = "plotted" /\ show_mode = "choropleth"
    /\ FigureMade /\ ValuesEncoded /\ AllValuesNull
    /\ ~HasLegend /\ AllFilled(BadColour(cmap_name))

----------------------------------------------------------------------------
(* C12. *)

\* the hexagons of the figure, each by its id and its label, in drawing order
DrawnRows == [k \in 1..Len(fig.polys) |-> << fig.polys[k].hex_id, fig.polys[k].label >>]

\* the rows of a table, each by its id and the label it would be drawn with
Keyed(rs) == [k \in 1..Len(rs) |-> << rs[k].hex_id, Label(rs[k]) >>]

ExportRows == Keyed(Get(export).rows)

\* the rows of the enriched set that have a code
CodedRows == SelectSeq(Enriched, LAMBDA r : IsSome(r.code))

\* the export is the enriched set without the column verts
ExportIsEnriched ==
    /\ export /= None
    /\ Get(export).rows = Enriched
    /\ Get(export).cols = Get(merged).cols \ {"verts"}

(* C12 as claimed: at the end of a run that has drawn a figure or made an   *)
(* export, the export holds exactly the rows drawn in the figure, in every  *)
(* display mode, and leaves out only the column verts.                      *)
C12_AsClaimed ==
    (pc = "done" /\ (fig.kind = "figure" \/ export /= None)) =>
        /\ export /= None
        /\ ExportRows = DrawnRows
        /\ Get(export).cols = Get(merged).cols \ {"verts"}

(* C12 as amended: nothing is exported by a run that raised or stopped.     *)
(* src/app.py exports the whole enriched set without the column verts in    *)
(* every display mode; these are the rows drawn in the modes Full grid and  *)
(* Choropleth, while the mode Only hexes with code draws only the rows that *)
(* have a code (no figure when there are none), so the export also holds    *)
(* the rows without a code.  src/streamlit_app.py exports exactly when the  *)
(* enriched set of an upload is not empty and was drawn; the export is then *)
(* the rows drawn, in order, without the column verts; without an upload,   *)
(* or with an empty enriched set, there is no figure of an enriched set and *)
(* no export.                                                               *)
C12_ExportIsEnrichedSet ==
    /\ export /= None => pc = "done"
    /\ (app = "app" /\ pc = "done") =>
          /\ ExportIsEnriched
          /\ show_mode \in {"full", "choropleth"} =>
                (fig.kind = "figure" /\ DrawnRows = ExportRows)
          /\ show_mode = "coded" =>
                /\ DrawnRows = Keyed(CodedRows)
                /\ fig.kind = "figure" <=> Len(CodedRows) > 0
    /\ (app = "streamlit" /\ pc = "done") =>
          /\ export /= None <=> (HasValues /\ IsSome(merged) /\ Len(Enriched) > 0)
          /\ export /= None =>
                (ExportIsEnriched /\ fig.kind = "figure" /\ DrawnRows = ExportRows)
          /\ export = None => fig.kind /= "figure"

\* src/app.py has drawn "Only hexes with code" for a grid where cell 0 alone
\* has a code, and has exported all four rows
C12_Witness ==
    /\ app = "app" /\ pc = "done" /\ show_mode = "coded"
    /\ fig.kind = "figure" /\ Len(fig.polys) = 1
    /\ export /= None /\ Len(Get(export).rows) = rows * cols
    /\ rows * cols > 1

----------------------------------------------------------------------------
(* C13. *)

\* the cells make_hex_grid produced
GridCells == {hex_grid[i] : i \in 1..Len(hex_grid)}

\* row r carries the id, centre and outline of a cell of the grid
TracesToCell(r) ==
    /\ IsSome(r.cell)
    /\ Get(r.cell) \in GridCells
    /\ Get(r.cell).hex_id = r.hex_id
    /\ Len(Get(r.cell).verts) = 6

(* C13: after the resolve step every row of the enriched set carries the    *)
(* id, centre and 6-vertex outline of a cell of the generated grid, also    *)
(* when the mapping table has ids past the grid; no row lacks its geometry. *)
C13_RowsTraceToCells ==
    (AfterResolve /\ IsSome(merged)) =>
        \A k \in 1..Len(Enriched) : TracesToCell(Enriched[k])

\* the same statement for src/app.py alone, where it holds
C13_HoldsInApp == app = "app" => C13_RowsTraceToCells

====
